---- MODULE Spec2Model ----
(***************************************************************************)
(* harbor-podman UID pipeline: the Definition Scanner                      *)
(* (container_uid_map.py), the Subuid Resolver (container_host_uid_map.py) *)
(* and the ACL Applicator (apply_container_host_uids.py), with the mapping *)
(* files they hand to each other.                                          *)
(*                                                                         *)
(* Text is modelled as sequences of one-character strings, a file as a     *)
(* record [exists, lines] (the text split at "\n"), an Optional value as   *)
(* <<>> (None) or <<v>>, a dict as a function whose domain is its key set. *)
(***************************************************************************)
EXTENDS Integers, Sequences, FiniteSets, TLC

\* ------------------------------------------------------------------ text

None == <<>>
Some(v) == <<v>>

EmptyMap == [k \in {} |-> None]

\* dict assignment  mapping[key] = value
Put(m, k, v) == [n \in DOMAIN m \cup {k} |-> IF n = k THEN v ELSE m[n]]

\* dict.get(key): None when the key is absent
Get(m, k) == IF k \in DOMAIN m THEN m[k] ELSE None

DigitChars == <<"0", "1", "2", "3", "4", "5", "6", "7", "8", "9">>

Digits == {DigitChars[i] : i \in 1..Len(DigitChars)}

DigitVal(c) == (CHOOSE i \in 1..Len(DigitChars) : DigitChars[i] = c) - 1

\* The characters of the model in code-point order (ASCII), for Python's
\* string comparison in sorted().
AsciiOrder ==
  <<" ", "\"", "#", "-", ".", "/",
    "0", "1", "2", "3", "4", "5", "6", "7", "8", "9", ":",
    "A", "B", "C", "D", "E", "F", "G", "H", "I", "J", "K", "L", "M",
    "N", "O", "P", "Q", "R", "S", "T", "U", "V", "W", "X", "Y", "Z",
    "[", "]",
    "a", "b", "c", "d", "e", "f", "g", "h", "i", "j", "k", "l", "m",
    "n", "o", "p", "q", "r", "s", "t", "u", "v", "w", "x", "y", "z",
    "{", "}", "~">>

Ord(c) == CHOOSE i \in 1..Len(AsciiOrder) : AsciiOrder[i] = c

RECURSIVE StrLess(_, _)
StrLess(a, b) ==
  IF b = <<>> THEN FALSE
  ELSE IF a = <<>> THEN TRUE
  ELSE IF Head(a) # Head(b) THEN Ord(Head(a)) < Ord(Head(b))
  ELSE StrLess(Tail(a), Tail(b))

\* sorted(mapping.items()): the keys are distinct, so the pairs sort by key
RECURSIVE SortedKeys(_)
SortedKeys(S) ==
  IF S = {} THEN <<>>
  ELSE LET m == CHOOSE x \in S : \A y \in S \ {x} : StrLess(x, y)
       IN  <<m>> \o SortedKeys(S \ {m})

RECURSIVE LStrip(_)
LStrip(s) == IF s # <<>> /\ Head(s) = " " THEN LStrip(Tail(s)) ELSE s

RECURSIVE RStrip(_)
RStrip(s) ==
  IF s # <<>> /\ s[Len(s)] = " " THEN RStrip(SubSeq(s, 1, Len(s) - 1)) ELSE s

\* str.strip()
Strip(s) == LStrip(RStrip(s))

RECURSIVE LStripQuote(_)
LStripQuote(s) == IF s # <<>> /\ Head(s) = "\"" THEN LStripQuote(Tail(s)) ELSE s

RECURSIVE RStripQuote(_)
RStripQuote(s) ==
  IF s # <<>> /\ s[Len(s)] = "\"" THEN RStripQuote(SubSeq(s, 1, Len(s) - 1)) ELSE s

\* str.strip('"')
StripQuote(s) == LStripQuote(RStripQuote(s))

\* str.isdigit()
isdigit(s) == s # <<>> /\ \A i \in 1..Len(s) : s[i] \in Digits

\* int(s) of a digit string: decimal, leading zeros allowed
RECURSIVE DecimalOf(_)
DecimalOf(s) ==
  IF s = <<>> THEN 0
  ELSE 10 * DecimalOf(SubSeq(s, 1, Len(s) - 1)) + DigitVal(s[Len(s)])

\* str(n) of an integer
RECURSIVE StrOfNat(_)
StrOfNat(n) ==
  IF n < 10 THEN <<DigitChars[n + 1]>>
  ELSE StrOfNat(n \div 10) \o <<DigitChars[(n % 10) + 1]>>

StrOfInt(n) == IF n < 0 THEN <<"-">> \o StrOfNat(0 - n) ELSE StrOfNat(n)

\* the first index of character c in s, 0 when there is none
IndexOf(s, c) ==
  IF \E i \in 1..Len(s) : s[i] = c
  THEN CHOOSE i \in 1..Len(s) : s[i] = c /\ \A j \in 1..(i - 1) : s[j] # c
  ELSE 0

\* a file on disk
NoFile == [exists |-> FALSE, lines |-> <<>>]
FileOf(ls) == [exists |-> TRUE, lines |-> ls]

\* content.strip() is empty
IsBlankContent(f) == \A i \in 1..Len(f.lines) : Strip(f.lines[i]) = <<>>

\* ------------------------------------------------- mapping store: results

\* what a load returns: a mapping, or the exception that ended it
Ok(m) == [kind |-> "ok", map |-> m, exc |-> "", key |-> <<>>, val |-> <<>>]
Fatal(exc, key, val) ==
  [kind |-> "fatal", map |-> EmptyMap, exc |-> exc, key |-> key, val |-> val]

NullWord == <<"n", "u", "l", "l">>
Tilde == <<"~">>
EmptyMappingLiteral == <<"{", "}">>
EmptyListLiteral == <<"[", "]">>

\* f"{name}: {rendered}"
MapLine(name, rendered) == name \o <<":", " ">> \o rendered

\* ------------------------------------ mapping store: the structured parser
\* yaml.safe_load (PyYAML, YAML 1.1 resolver) on the block mappings of plain
\* and double-quoted scalars that the model's files hold.  A YAML value is
\* [t, n, s]: its Python type, its number, its text.

YNull == [t |-> "null", n |-> 0, s |-> <<>>]
YBool(b) == [t |-> "bool", n |-> b, s |-> <<>>]
YInt(n) == [t |-> "int", n |-> n, s |-> <<>>]
YFloat(s) == [t |-> "float", n |-> 0, s |-> s]
YStr(s) == [t |-> "str", n |-> 0, s |-> s]

YamlNullWords ==
  {<<>>, Tilde, NullWord, <<"N", "u", "l", "l">>, <<"N", "U", "L", "L">>}

YamlTrueWords ==
  {<<"y", "e", "s">>, <<"Y", "e", "s">>, <<"Y", "E", "S">>,
   <<"t", "r", "u", "e">>, <<"T", "r", "u", "e">>, <<"T", "R", "U", "E">>,
   <<"o", "n">>, <<"O", "n">>, <<"O", "N">>}

YamlFalseWords ==
  {<<"n", "o">>, <<"N", "o">>, <<"N", "O">>,
   <<"f", "a", "l", "s", "e">>, <<"F", "a", "l", "s", "e">>,
   <<"F", "A", "L", "S", "E">>,
   <<"o", "f", "f">>, <<"O", "f", "f">>, <<"O", "F", "F">>}

Unsigned(s) == IF s # <<>> /\ Head(s) \in {"-", "+"} THEN Tail(s) ELSE s

\* tag:yaml.org,2002:int, its decimal  [-+]?(0|[1-9][0-9]*)  and octal
\* [-+]?0[0-7]+  forms (no token of the model holds the b, x, _ or inner :
\* of the binary, hexadecimal and sexagesimal forms)
IsYamlDecimal(s) ==
  LET u == Unsigned(s) IN isdigit(u) /\ (u = <<"0">> \/ Head(u) # "0")

IsYamlOctal(s) ==
  LET u == Unsigned(s)
  IN  /\ Len(u) >= 2
      /\ Head(u) = "0"
      /\ \A i \in 2..Len(u) : u[i] \in Digits /\ DigitVal(u[i]) <= 7

RECURSIVE OctalOf(_)
OctalOf(s) ==
  IF s = <<>> THEN 0
  ELSE 8 * OctalOf(SubSeq(s, 1, Len(s) - 1)) + DigitVal(s[Len(s)])

YamlIntOf(s) ==
  LET u == Unsigned(s)
      mag == IF IsYamlOctal(s) THEN OctalOf(u) ELSE DecimalOf(u)
  IN  IF s # <<>> /\ Head(s) = "-" THEN 0 - mag ELSE mag

\* tag:yaml.org,2002:float, its  [-+]?[0-9]+\.[0-9]*  form
IsYamlFloat(s) ==
  LET u == Unsigned(s)
      d == IndexOf(u, ".")
  IN  /\ d >= 2
      /\ isdigit(SubSeq(u, 1, d - 1))
      /\ \A i \in (d + 1)..Len(u) : u[i] \in Digits

\* the implicit resolver: the Python value of one scalar
YamlResolve(s) ==
  IF Len(s) >= 2 /\ Head(s) = "\"" /\ s[Len(s)] = "\""
    THEN YStr(SubSeq(s, 2, Len(s) - 1))
  ELSE IF s \in YamlNullWords THEN YNull
  ELSE IF s \in YamlTrueWords THEN YBool(1)
  ELSE IF s \in YamlFalseWords THEN YBool(0)
  ELSE IF IsYamlDecimal(s) \/ IsYamlOctal(s) THEN YInt(YamlIntOf(s))
  ELSE IF IsYamlFloat(s) THEN YFloat(s)
  ELSE YStr(s)

\* the ":" that ends a plain key: the first one followed by a space or by
\* the end of the line; 0 when the line has none
YamlKeyEnd(line) ==
  LET sep(i) == line[i] = ":" /\ (i = Len(line) \/ line[i + 1] = " ")
  IN  IF \E i \in 1..Len(line) : sep(i)
      THEN CHOOSE i \in 1..Len(line) : sep(i) /\ \A j \in 1..(i - 1) : ~sep(j)
      ELSE 0

\* the lines YAML reads: neither blank nor a comment
RECURSIVE YamlContentLines(_)
YamlContentLines(lines) ==
  IF lines = <<>> THEN <<>>
  ELSE LET l == Strip(Head(lines))
           rest == YamlContentLines(Tail(lines))
       IN  IF l = <<>> \/ Head(l) = "#" THEN rest ELSE <<l>> \o rest

\* bool(value) is False
YamlFalsy(v) ==
  \/ v.t = "null"
  \/ v.t \in {"bool", "int"} /\ v.n = 0
  \/ v.t = "str" /\ v.s = <<>>

\* yaml.safe_load(content) or {}: kind "dict" with the (key, value) pairs in
\* file order, or kind "other" (a document that is no mapping, or no YAML)
YamlSafeLoad(lines) ==
  LET cl == YamlContentLines(lines)
      item(l) == LET k == YamlKeyEnd(l)
                 IN  <<YamlResolve(Strip(SubSeq(l, 1, k - 1))),
                       YamlResolve(Strip(SubSeq(l, k + 1, Len(l))))>>
  IN  IF cl = <<>> THEN [kind |-> "dict", items |-> <<>>]
      ELSE IF Len(cl) = 1 /\ cl[1] \in {EmptyMappingLiteral, EmptyListLiteral}
        THEN [kind |-> "dict", items |-> <<>>]
      ELSE IF \A i \in 1..Len(cl) : YamlKeyEnd(cl[i]) > 0
        THEN [kind |-> "dict", items |-> [i \in 1..Len(cl) |-> item(cl[i])]]
      ELSE IF Len(cl) = 1 /\ YamlFalsy(YamlResolve(cl[1]))
        THEN [kind |-> "dict", items |-> <<>>]
      ELSE [kind |-> "other", items |-> <<>>]

\* str(key) of a YAML key
PyStr(v) ==
  CASE v.t = "null" -> <<"N", "o", "n", "e">>
    [] v.t = "bool" -> IF v.n = 1 THEN <<"T", "r", "u", "e">>
                       ELSE <<"F", "a", "l", "s", "e">>
    [] v.t = "int" -> StrOfInt(v.n)
    [] OTHER -> v.s

\* --------------------------- mapping store: the Resolver's load and save

\* load_yaml_simple of container_host_uid_map.py, from line i on
RECURSIVE res_simple_lines(_, _, _)
res_simple_lines(lines, i, mapping) ==
  IF i > Len(lines) THEN Ok(mapping)
  ELSE
    LET line == Strip(lines[i]) IN
    IF line = <<>> \/ Head(line) = "#" THEN res_simple_lines(lines, i + 1, mapping)
    ELSE IF line \in {EmptyMappingLiteral, EmptyListLiteral} THEN Ok(EmptyMap)
    ELSE IF IndexOf(line, ":") = 0 THEN res_simple_lines(lines, i + 1, mapping)
    ELSE
      LET k == IndexOf(line, ":")
          key == Strip(SubSeq(line, 1, k - 1))
          val == StripQuote(Strip(SubSeq(line, k + 1, Len(line))))
      IN  IF val = <<>> \/ val \in {NullWord, Tilde}
            THEN res_simple_lines(lines, i + 1, Put(mapping, key, None))
          ELSE IF isdigit(val)
            THEN res_simple_lines(lines, i + 1, Put(mapping, key, Some(DecimalOf(val))))
          ELSE Fatal("ValueError: Unsupported value", key, val)

res_load_yaml_simple(f) == res_simple_lines(f.lines, 1, EmptyMap)

\* the loop of load_container_map over data.items(), from item i on
RECURSIVE container_items(_, _, _)
container_items(items, i, result) ==
  IF i > Len(items) THEN Ok(result)
  ELSE
    LET key == items[i][1]
        value == items[i][2]
    IN  IF value.t = "null"
          THEN container_items(items, i + 1, Put(result, PyStr(key), None))
        ELSE IF value.t \in {"int", "bool"}
          THEN container_items(items, i + 1, Put(result, PyStr(key), Some(value.n)))
        ELSE IF value.t = "str" /\ isdigit(value.s)
          THEN container_items(items, i + 1,
                               Put(result, PyStr(key), Some(DecimalOf(value.s))))
        ELSE Fatal("SystemExit: Unsupported UID value", PyStr(key), value.s)

\* load_container_map; yaml: whether the structured parser was imported
load_container_map(f, yaml) ==
  IF ~f.exists THEN Fatal("SystemExit: UID map file not found", <<>>, <<>>)
  ELSE IF IsBlankContent(f) THEN Ok(EmptyMap)
  ELSE IF yaml THEN
    LET data == YamlSafeLoad(f.lines)
    IN  IF data.kind # "dict"
          THEN Fatal("SystemExit: Container UID map must be a YAML mapping", <<>>, <<>>)
        ELSE container_items(data.items, 1, EmptyMap)
  ELSE res_load_yaml_simple(f)

\* a rendering that tests the truth of uid, not "uid is None": 0 becomes null
res_rendered_mutant(uid) ==
  IF uid = None \/ uid = Some(0) THEN NullWord ELSE StrOfInt(uid[1])
\* the rendering of one value in the Resolver's write_yaml
res_rendered(uid) == IF uid = None THEN NullWord ELSE StrOfInt(uid[1])

\* write_yaml of container_host_uid_map.py: the file it leaves
res_write_yaml(mapping) ==
  LET names == SortedKeys(DOMAIN mapping)
      lines == [i \in 1..Len(names) |->
                  MapLine(names[i], res_rendered(mapping[names[i]]))]
  IN  FileOf(IF lines = <<>> THEN <<EmptyMappingLiteral>> ELSE lines)

\* ------------------------------------- mapping store: the Applicator's load

\* a fallback loop that passes over a value that is no UID
RECURSIVE app_simple_lines_mutant(_, _, _)
app_simple_lines_mutant(lines, i, mapping) ==
  IF i > Len(lines) THEN Ok(mapping)
  ELSE
    LET line == Strip(lines[i]) IN
    IF line = <<>> \/ Head(line) = "#" THEN app_simple_lines_mutant(lines, i + 1, mapping)
    ELSE IF line \in {EmptyMappingLiteral, EmptyListLiteral} THEN Ok(EmptyMap)
    ELSE IF IndexOf(line, ":") = 0 THEN app_simple_lines_mutant(lines, i + 1, mapping)
    ELSE
      LET k == IndexOf(line, ":")
          key == Strip(SubSeq(line, 1, k - 1))
          val == StripQuote(Strip(SubSeq(line, k + 1, Len(line))))
      IN  IF val = <<>> \/ val \in {NullWord, Tilde}
            THEN app_simple_lines_mutant(lines, i + 1, Put(mapping, key, None))
          ELSE IF isdigit(val)
            THEN app_simple_lines_mutant(lines, i + 1, Put(mapping, key, Some(DecimalOf(val))))
          ELSE app_simple_lines_mutant(lines, i + 1, mapping)

\* load_yaml_simple of apply_container_host_uids.py, from line i on
RECURSIVE app_simple_lines(_, _, _)
app_simple_lines(lines, i, mapping) ==
  IF i > Len(lines) THEN Ok(mapping)
  ELSE
    LET line == Strip(lines[i]) IN
    IF line = <<>> \/ Head(line) = "#" THEN app_simple_lines(lines, i + 1, mapping)
    ELSE IF line \in {EmptyMappingLiteral, EmptyListLiteral} THEN Ok(EmptyMap)
    ELSE IF IndexOf(line, ":") = 0 THEN app_simple_lines(lines, i + 1, mapping)
    ELSE
      LET k == IndexOf(line, ":")
          key == Strip(SubSeq(line, 1, k - 1))
          val == StripQuote(Strip(SubSeq(line, k + 1, Len(line))))
      IN  IF val = <<>> \/ val \in {NullWord, Tilde}
            THEN app_simple_lines(lines, i + 1, Put(mapping, key, None))
          ELSE IF isdigit(val)
            THEN app_simple_lines(lines, i + 1, Put(mapping, key, Some(DecimalOf(val))))
          ELSE Fatal("ValueError: Unsupported UID value", key, val)

app_load_yaml_simple(f) == app_simple_lines(f.lines, 1, EmptyMap)

\* the loop of load_host_map over data.items(), from item i on
RECURSIVE host_items(_, _, _)
host_items(items, i, result) ==
  IF i > Len(items) THEN Ok(result)
  ELSE
    LET key == items[i][1]
        value == items[i][2]
    IN  IF value.t = "null"
          THEN host_items(items, i + 1, Put(result, PyStr(key), None))
        ELSE IF value.t \in {"int", "bool"}
          THEN host_items(items, i + 1, Put(result, PyStr(key), Some(value.n)))
        ELSE IF value.t = "str" /\ isdigit(value.s)
          THEN host_items(items, i + 1,
                          Put(result, PyStr(key), Some(DecimalOf(value.s))))
        ELSE Fatal("SystemExit: Unsupported UID value", PyStr(key), value.s)

\* load_host_map; yaml: whether the structured parser was imported
load_host_map(f, yaml) ==
  IF ~f.exists THEN Fatal("SystemExit: Host UID map file not found", <<>>, <<>>)
  ELSE IF IsBlankContent(f) THEN Ok(EmptyMap)
  ELSE IF yaml THEN
    LET data == YamlSafeLoad(f.lines)
    IN  IF data.kind # "dict"
          THEN Fatal("SystemExit: Host UID map must be a YAML mapping", <<>>, <<>>)
        ELSE host_items(data.items, 1, EmptyMap)
  ELSE app_load_yaml_simple(f)

\* ---------------------------------------- mapping store: the Scanner's save

\* write_yaml of container_uid_map.py: a UID is the digit string as extracted
scan_rendered(uid) == IF uid = None THEN NullWord ELSE uid[1]

scan_write_yaml(mapping) ==
  LET names == SortedKeys(DOMAIN mapping)
      lines == [i \in 1..Len(names) |->
                  MapLine(names[i], scan_rendered(mapping[names[i]]))]
  IN  FileOf(IF lines = <<>> THEN <<EmptyMappingLiteral>> ELSE lines)

\* ---------------------------------------------------- the Subuid Resolver

\* str.split(c)
RECURSIVE Split(_, _)
Split(s, c) ==
  LET k == IndexOf(s, c)
  IN  IF k = 0 THEN <<s>>
      ELSE <<SubSeq(s, 1, k - 1)>> \o Split(SubSeq(s, k + 1, Len(s)), c)

\* int(s): surrounding whitespace and one sign are accepted; ok is FALSE
\* where Python raises ValueError
PyInt(s) ==
  LET t == Strip(s)
      u == Unsigned(t)
  IN  IF isdigit(u)
        THEN [ok |-> TRUE, n |-> IF Head(t) = "-" THEN 0 - DecimalOf(u) ELSE DecimalOf(u)]
      ELSE [ok |-> FALSE, n |-> 0]

BaseOk(n) == [kind |-> "ok", base |-> n, exc |-> ""]
BaseFatal(exc) == [kind |-> "fatal", base |-> 0, exc |-> exc]

\* a loop that passes over a record whose base is no integer
RECURSIVE subuid_lines_mutant(_, _, _)
subuid_lines_mutant(lines, i, username) ==
  IF i > Len(lines) THEN BaseFatal("SystemExit: No subuid entry found for user")
  ELSE
    LET line == Strip(lines[i])
        parts == Split(line, ":")
    IN  IF line = <<>> \/ Head(line) = "#" THEN subuid_lines_mutant(lines, i + 1, username)
        ELSE IF Len(parts) < 3 THEN subuid_lines_mutant(lines, i + 1, username)
        ELSE IF parts[1] = username /\ PyInt(parts[2]).ok THEN BaseOk(PyInt(parts[2]).n)
        ELSE subuid_lines_mutant(lines, i + 1, username)

\* the loop of get_current_user_subuid over the registry's lines, from line i
RECURSIVE subuid_lines(_, _, _)
subuid_lines(lines, i, username) ==
  IF i > Len(lines) THEN BaseFatal("SystemExit: No subuid entry found for user")
  ELSE
    LET line == Strip(lines[i])
        parts == Split(line, ":")
    IN  IF line = <<>> \/ Head(line) = "#" THEN subuid_lines(lines, i + 1, username)
        ELSE IF Len(parts) < 3 THEN subuid_lines(lines, i + 1, username)
        ELSE IF parts[1] = username
          THEN IF PyInt(parts[2]).ok THEN BaseOk(PyInt(parts[2]).n)
               ELSE BaseFatal("SystemExit: Invalid subuid base")
        ELSE subuid_lines(lines, i + 1, username)

get_current_user_subuid(f, username) ==
  IF ~f.exists THEN BaseFatal("SystemExit: subuid file not found")
  ELSE subuid_lines(f.lines, 1, username)

\* an offset without the test of os.getuid()
host_uid_mutant(subuid_base, container_uid, osuid) == subuid_base + container_uid
\* one host UID of compute_host_uids; osuid is os.getuid()
host_uid(subuid_base, container_uid, osuid) ==
  IF osuid # 0 THEN subuid_base + container_uid - 1
  ELSE subuid_base + container_uid

\* a loop that drops the containers without UID instead of passing None on
compute_host_uids_mutant(mapping, subuid_base, osuid) ==
  [name \in {n \in DOMAIN mapping : mapping[n] # None} |->
     Some(host_uid(subuid_base, mapping[name][1], osuid))]
compute_host_uids(mapping, subuid_base, osuid) ==
  [name \in DOMAIN mapping |->
     IF mapping[name] = None THEN None
     ELSE Some(host_uid(subuid_base, mapping[name][1], osuid))]

\* ----------------------------------------------------- the ACL Applicator

\* a call that does not test the return code of setfacl
apply_setfacl_mutant(dry_run, installed, rc) ==
  IF dry_run THEN [spawned |-> FALSE, printed |-> TRUE, exc |-> ""]
  ELSE IF ~installed
    THEN [spawned |-> FALSE, printed |-> FALSE, exc |-> "SystemExit: setfacl command not found"]
  ELSE [spawned |-> TRUE, printed |-> FALSE, exc |-> ""]
\* apply_setfacl(target, uid, dry_run): what one call does.  installed: the
\* setfacl command exists; rc: the return code it would give.  spawned: the
\* command ran; exc: the SystemExit raised, "" when the call returns.
apply_setfacl(dry_run, installed, rc) ==
  IF dry_run THEN [spawned |-> FALSE, printed |-> TRUE, exc |-> ""]
  ELSE IF ~installed
    THEN [spawned |-> FALSE, printed |-> FALSE, exc |-> "SystemExit: setfacl command not found"]
  ELSE IF rc # 0
    THEN [spawned |-> TRUE, printed |-> FALSE, exc |-> "SystemExit: setfacl failed"]
  ELSE [spawned |-> TRUE, printed |-> FALSE, exc |-> ""]

\* skip tests without the os.path.isdir(target) test
skip_reason_mutant(uid, isdir) ==
  IF uid = None THEN "Skipping: no host UID defined" ELSE ""
\* main's two skip tests on one entry: "" when the entry is to be granted
skip_reason(uid, isdir) ==
  IF uid = None THEN "Skipping: no host UID defined"
  ELSE IF ~isdir THEN "Skipping: directory not found"
  ELSE ""

\* a tally that leaves dry runs out
count_processed_mutant(processed, dry_run) ==
  IF dry_run THEN processed ELSE processed + 1
\* processed += 1, after apply_setfacl has returned
count_processed(processed, dry_run) == processed + 1

\* container names of the deployment
App == <<"a", "p", "p">>
Db == <<"d", "b">>
Core == <<"c", "o", "r", "e">>
Nginx == <<"n", "g", "i", "n", "x">>
Database == <<"d", "a", "t", "a", "b", "a", "s", "e">>
SecretCert == <<"s", "e", "c", "r", "e", "t", "/", "c", "e", "r", "t">>
SecretCore == <<"s", "e", "c", "r", "e", "t", "/", "c", "o", "r", "e">>

\* --------------------------------------------------- the Definition Scanner

\* a loop body in which a comment line clears the pending text
effective_step_mutant(stripped_newline, pending) ==
  LET stripped == Strip(stripped_newline)
  IN  IF stripped = <<>>
        THEN IF pending # <<>> THEN [pending |-> <<>>, yield |-> Some(Strip(pending))]
             ELSE [pending |-> pending, yield |-> None]
      ELSE IF Head(stripped) = "#" THEN [pending |-> <<>>, yield |-> None]
      ELSE IF stripped_newline[Len(stripped_newline)] = "\\"
        THEN [pending |-> pending \o SubSeq(stripped_newline, 1, Len(stripped_newline) - 1)
                            \o <<" ">>,
              yield |-> None]
      ELSE [pending |-> <<>>, yield |-> Some(Strip(pending \o stripped_newline))]

\* the body of read_effective_lines' loop for one physical line, the newline
\* taken off: the new pending text, and the logical line yielded if any
effective_step(stripped_newline, pending) ==
  LET stripped == Strip(stripped_newline)
  IN  IF stripped = <<>>
        THEN IF pending # <<>> THEN [pending |-> <<>>, yield |-> Some(Strip(pending))]
             ELSE [pending |-> pending, yield |-> None]
      ELSE IF Head(stripped) = "#" THEN [pending |-> pending, yield |-> None]
      ELSE IF stripped_newline[Len(stripped_newline)] = "\\"
        THEN [pending |-> pending \o SubSeq(stripped_newline, 1, Len(stripped_newline) - 1)
                            \o <<" ">>,
              yield |-> None]
      ELSE [pending |-> <<>>, yield |-> Some(Strip(pending \o stripped_newline))]

\* read_effective_lines: the logical lines of a Dockerfile, from physical
\* line i on, with the text pending from continuation lines
RECURSIVE effective_lines(_, _, _)
effective_lines(lines, i, pending) ==
  IF i > Len(lines) THEN (IF pending # <<>> THEN <<Strip(pending)>> ELSE <<>>)
  ELSE
    LET stripped_newline == lines[i]
        stripped == Strip(stripped_newline)
    IN  IF stripped = <<>>
          THEN (IF pending # <<>> THEN <<Strip(pending)>> ELSE <<>>)
                 \o effective_lines(lines, i + 1, <<>>)
        ELSE IF Head(stripped) = "#" THEN effective_lines(lines, i + 1, pending)
        ELSE IF stripped_newline[Len(stripped_newline)] = "\\"
          THEN effective_lines(lines, i + 1,
                 pending \o SubSeq(stripped_newline, 1, Len(stripped_newline) - 1) \o <<" ">>)
        ELSE <<Strip(pending \o stripped_newline)>> \o effective_lines(lines, i + 1, <<>>)

read_effective_lines(f) == effective_lines(f.lines, 1, <<>>)

\* str.split(): the words between runs of whitespace
RECURSIVE Words(_)
Words(s) ==
  LET t == LStrip(s)
      k == IndexOf(t, " ")
  IN  IF t = <<>> THEN <<>>
      ELSE IF k = 0 THEN <<t>>
      ELSE <<SubSeq(t, 1, k - 1)>> \o Words(SubSeq(t, k + 1, Len(t)))

Quotes == {"'", "\""}

\* what read_token returns: some is FALSE at the end of the input, next is the
\* character the following call starts at, ok is FALSE where shlex raises
\* ValueError (no closing quotation, no escaped character)
Token(token, quoted, next) ==
  [ok |-> TRUE, some |-> (token # <<>> \/ quoted), token |-> token, next |-> next]
NoToken(ok, next) == [ok |-> ok, some |-> FALSE, token |-> <<>>, next |-> next]

\* shlex.read_token (posix, whitespace_split, commenters "#") from character
\* i of line.  state: " " between tokens, "a" in a word, a quote character
\* inside quotes, "\\" after an escape; a comment runs to the end of the line
RECURSIVE read_token(_, _, _, _, _, _)
read_token(line, i, state, escapedstate, token, quoted) ==
  IF i > Len(line)
    THEN IF state = " " THEN NoToken(TRUE, i)
         ELSE IF state = "a" THEN Token(token, quoted, i)
         ELSE NoToken(FALSE, i)
  ELSE
    LET nextchar == line[i] IN
    IF state = " " THEN
      IF nextchar = " " THEN read_token(line, i + 1, " ", escapedstate, token, quoted)
      ELSE IF nextchar = "#" THEN NoToken(TRUE, Len(line) + 1)
      ELSE IF nextchar = "\\" THEN read_token(line, i + 1, "\\", "a", token, quoted)
      ELSE IF nextchar \in Quotes
        THEN read_token(line, i + 1, nextchar, escapedstate, token, quoted)
      ELSE read_token(line, i + 1, "a", escapedstate, <<nextchar>>, quoted)
    ELSE IF state \in Quotes THEN
      IF nextchar = state THEN read_token(line, i + 1, "a", escapedstate, token, TRUE)
      ELSE IF nextchar = "\\" /\ state = "\""
        THEN read_token(line, i + 1, "\\", state, token, TRUE)
      ELSE read_token(line, i + 1, state, escapedstate, Append(token, nextchar), TRUE)
    ELSE IF state = "\\" THEN
      read_token(line, i + 1, escapedstate, escapedstate,
                 (IF escapedstate \in Quotes /\ nextchar # "\\" /\ nextchar # escapedstate
                    THEN Append(token, "\\") ELSE token) \o <<nextchar>>,
                 quoted)
    ELSE
      IF nextchar = " "
        THEN IF token # <<>> \/ quoted THEN Token(token, quoted, i + 1)
             ELSE read_token(line, i + 1, " ", escapedstate, token, quoted)
      ELSE IF nextchar = "#" THEN Token(token, quoted, Len(line) + 1)
      ELSE IF nextchar \in Quotes
        THEN read_token(line, i + 1, nextchar, escapedstate, token, quoted)
      ELSE IF nextchar = "\\" THEN read_token(line, i + 1, "\\", "a", token, quoted)
      ELSE read_token(line, i + 1, "a", escapedstate, Append(token, nextchar), quoted)

\* list(lex): the tokens read_token hands out from character i on
RECURSIVE shlex_tokens(_, _)
shlex_tokens(line, i) ==
  LET r == read_token(line, i, " ", " ", <<>>, FALSE)
      rest == shlex_tokens(line, r.next)
  IN  IF ~r.ok THEN [ok |-> FALSE, tokens |-> <<>>]
      ELSE IF ~r.some THEN [ok |-> TRUE, tokens |-> <<>>]
      ELSE IF ~rest.ok THEN [ok |-> FALSE, tokens |-> <<>>]
      ELSE [ok |-> TRUE, tokens |-> <<r.token>> \o rest.tokens]

\* shlex.split(line, comments=True)
shlex_split(line) == shlex_tokens(line, 1)

\* find_uid_in_file's tokens of one logical line: shlex.split, and
\* line.split() where shlex raises ValueError
line_tokens(line) ==
  IF shlex_split(line).ok THEN shlex_split(line).tokens ELSE Words(line)

\* str.startswith
StartsWith(s, prefix) ==
  Len(s) >= Len(prefix) /\ SubSeq(s, 1, Len(prefix)) = prefix

\* str.endswith
EndsWith(s, suffix) ==
  Len(s) >= Len(suffix) /\ SubSeq(s, Len(s) - Len(suffix) + 1, Len(s)) = suffix

ShortFlag == <<"-", "u">>
LongFlag == <<"-", "-", "u", "i", "d">>
LongFlagEq == LongFlag \o <<"=">>

\* a scan that gives up at the first UID flag whose value is not numeric
RECURSIVE extract_uid_from_mutant(_, _)
extract_uid_from_mutant(token_list, index) ==
  IF index > Len(token_list) THEN None
  ELSE
    LET token == token_list[index] IN
    IF token \in {ShortFlag, LongFlag}
      THEN IF index + 1 <= Len(token_list) /\ isdigit(token_list[index + 1])
             THEN Some(token_list[index + 1])
           ELSE None
    ELSE
      LET cut == SubSeq(token, 3, Len(token))
          candidate == IF cut # <<>> /\ Head(cut) = "=" THEN Tail(cut) ELSE cut
      IN  IF StartsWith(token, ShortFlag) /\ isdigit(candidate) THEN Some(candidate)
          ELSE IF StartsWith(token, LongFlagEq)
                    /\ isdigit(SubSeq(token, Len(LongFlagEq) + 1, Len(token)))
            THEN Some(SubSeq(token, Len(LongFlagEq) + 1, Len(token)))
          ELSE extract_uid_from_mutant(token_list, index + 1)

\* extract_uid_from_tokens, from token index on: None or Some(digit string)
RECURSIVE extract_uid_from(_, _)
extract_uid_from(token_list, index) ==
  IF index > Len(token_list) THEN None
  ELSE
    LET token == token_list[index] IN
    IF token \in {ShortFlag, LongFlag}
      THEN IF index + 1 <= Len(token_list) /\ isdigit(token_list[index + 1])
             THEN Some(token_list[index + 1])
           ELSE extract_uid_from(token_list, index + 1)
    ELSE
      LET cut == SubSeq(token, 3, Len(token))
          candidate == IF cut # <<>> /\ Head(cut) = "=" THEN Tail(cut) ELSE cut
      IN  IF StartsWith(token, ShortFlag) /\ isdigit(candidate) THEN Some(candidate)
          ELSE IF StartsWith(token, LongFlagEq)
                    /\ isdigit(SubSeq(token, Len(LongFlagEq) + 1, Len(token)))
            THEN Some(SubSeq(token, Len(LongFlagEq) + 1, Len(token)))
          ELSE extract_uid_from(token_list, index + 1)

extract_uid_from_tokens(tokens) == extract_uid_from(tokens, 1)

\* find_uid_in_file: the UID of the first logical line that yields one
RECURSIVE first_uid(_, _)
first_uid(logical, i) ==
  IF i > Len(logical) THEN None
  ELSE LET uid == extract_uid_from_tokens(line_tokens(logical[i]))
       IN  IF uid # None THEN uid ELSE first_uid(logical, i + 1)

find_uid_in_file(f) == first_uid(read_effective_lines(f), 1)

DockerfileName == <<"D", "o", "c", "k", "e", "r", "f", "i", "l", "e">>
DockerfileBaseName == DockerfileName \o <<".", "b", "a", "s", "e">>

\* ("Dockerfile", "Dockerfile.base")
Candidates == <<DockerfileName, DockerfileBaseName>>

\* os.path.join(entry.path, candidate)
PathOf(name, candidate) == name \o <<"/">> \o candidate

\* a sort key that puts Dockerfile.base first
dockerfile_key_mutant(path) == IF EndsWith(path, DockerfileName) THEN 1 ELSE 0
\* key=lambda path: 0 if path.endswith("Dockerfile") else 1
dockerfile_key(path) == IF EndsWith(path, DockerfileName) THEN 0 ELSE 1

\* FROM x
DockerfileNoUid == FileOf(<<<<"F", "R", "O", "M", " ", "x">>>>)

\* USER app / RUN adduser -u 2000 app
DockerfileUser2000 ==
  FileOf(<<<<"U", "S", "E", "R", " ", "a", "p", "p">>,
           <<"R", "U", "N", " ", "a", "d", "d", "u", "s", "e", "r", " ",
             "-", "u", " ", "2", "0", "0", "0", " ", "a", "p", "p">>>>)

\* RUN adduser \ /   --uid=010 app
DockerfileContinued010 ==
  FileOf(<<<<"R", "U", "N", " ", "a", "d", "d", "u", "s", "e", "r", " ", "\\">>,
           <<" ", " ", "-", "-", "u", "i", "d", "=", "0", "1", "0", " ", "a", "p", "p">>>>)

DockerfileContents == {DockerfileNoUid, DockerfileUser2000, DockerfileContinued010}

\* a directory entry: [isdir, files], files: candidate name -> file
FileIn(entry, candidate) ==
  IF candidate \in DOMAIN entry.files THEN entry.files[candidate] ELSE NoFile

\* find_container_uids' loop over the sorted dockerfiles of one entry, from
\* position i on: the UID found, and the paths given to find_uid_in_file
RECURSIVE scan_files(_, _, _, _)
scan_files(name, entry, ordered, i) ==
  IF i > Len(ordered) THEN [uid |-> None, reads |-> ordered]
  ELSE
    LET candidate == CHOOSE c \in DOMAIN entry.files : ordered[i] = PathOf(name, c)
        uid == find_uid_in_file(entry.files[candidate])
    IN  IF uid # None THEN [uid |-> uid, reads |-> SubSeq(ordered, 1, i)]
        ELSE scan_files(name, entry, ordered, i + 1)

\* the body of find_container_uids' loop for one entry.  skip: the entry adds
\* no key; uid: the value of its key; reads: the paths given to
\* find_uid_in_file, in order
scan_entry(name, entry) ==
  LET dockerfiles == SelectSeq([i \in 1..Len(Candidates) |-> PathOf(name, Candidates[i])],
                               LAMBDA path : \E c \in DOMAIN entry.files :
                                               path = PathOf(name, c) /\ entry.files[c].exists)
      \* sorted(dockerfiles, key=...): stable, keys 0 before keys 1
      ordered == SelectSeq(dockerfiles, LAMBDA path : dockerfile_key(path) = 0)
                   \o SelectSeq(dockerfiles, LAMBDA path : dockerfile_key(path) # 0)
      found == scan_files(name, entry, ordered, 1)
  IN  IF ~entry.isdir THEN [skip |-> TRUE, uid |-> None, reads |-> <<>>]
      ELSE IF dockerfiles = <<>> THEN [skip |-> TRUE, uid |-> None, reads |-> <<>>]
      ELSE [skip |-> FALSE, uid |-> found.uid, reads |-> found.reads]

\* alias_pairs, in the dict's order
alias_pairs == <<<<Database, Db>>, <<SecretCert, Nginx>>, <<SecretCore, Core>>>>

\* main's alias loop, from pair i on
RECURSIVE apply_aliases_from(_, _)
apply_aliases_from(mapping, i) ==
  IF i > Len(alias_pairs) THEN mapping
  ELSE LET alias == alias_pairs[i][1]
           target == alias_pairs[i][2]
       IN  IF alias \notin DOMAIN mapping
             THEN apply_aliases_from(Put(mapping, alias, Get(mapping, target)), i + 1)
           ELSE apply_aliases_from(mapping, i + 1)

\* an alias loop without the "alias not in mapping" test
RECURSIVE override_aliases_from(_, _)
override_aliases_from(mapping, i) ==
  IF i > Len(alias_pairs) THEN mapping
  ELSE override_aliases_from(
         Put(mapping, alias_pairs[i][1], Get(mapping, alias_pairs[i][2])), i + 1)

apply_aliases_mutant(mapping) == override_aliases_from(mapping, 1)
\* main's alias loop
apply_aliases(mapping) == apply_aliases_from(mapping, 1)

\* ----------------------------------------------------------------- bounds


\* the most entries of a mapping that is saved
MaxEntries == 2
\* the most lines of a hand-written mapping file
MaxRawLines == 2

\* every mapping of at most max of the names to the values
MappingsOver(names, values, max) ==
  UNION {[S -> values] : S \in {T \in SUBSET names : Cardinality(T) <= max}}

\* every sequence of at most max of the lines
RECURSIVE SeqsUpTo(_, _)
SeqsUpTo(S, max) ==
  IF max = 0 THEN {<<>>}
  ELSE LET shorter == SeqsUpTo(S, max - 1)
       IN  shorter \cup {Append(q, x) : q \in {r \in shorter : Len(r) = max - 1}, x \in S}

StoreNames == {App, Db, SecretCert}

\* UIDs as the Scanner extracts them: digit strings, leading zeros kept
ScanUidStrings == {<<"0">>, <<"1", "0">>, <<"0", "1", "0">>, <<"0", "8">>}

\* host UIDs as the Resolver computes them (-1: base 0, UID 0, non-root)
ResolvedUids == {-1, 0, 8, 10}

\* value tokens of a hand-written mapping file
RawTokens ==
  {<<>>, NullWord, Tilde, <<"0">>, <<"7">>, <<"0", "1", "0">>, <<"0", "8">>,
   <<"-", "1">>, <<"t", "r", "u", "e">>, <<"a", "b", "c">>, <<"1", ".", "5">>,
   <<"\"", "7", "\"">>}

RawLines ==
  {MapLine(App, tok) : tok \in RawTokens}
    \cup {MapLine(Db, <<"5">>), <<" ">>, <<"#", " ", "c">>, EmptyMappingLiteral}

RawFiles == {NoFile} \cup {FileOf(ls) : ls \in SeqsUpTo(RawLines, MaxRawLines)}

\* ------------------------------------------------------ Resolver inputs

Alice == <<"a", "l", "i", "c", "e">>
Root == <<"r", "o", "o", "t">>
Range == <<"6", "5", "5", "3", "6">>

\* the OS uids the Resolver is run as: root and alice
OsUids == {0, 1000}

\* pwd.getpwuid(os.getuid()).pw_name
LoginName(uid) == IF uid = 0 THEN Root ELSE Alice

\* a registry record  username:base:range
SubuidRecord(user, base, range) == user \o <<":">> \o base \o <<":">> \o range

\* the most lines of the Resolver's input mapping, and of the registry
MaxMapLines == 2
MaxSubuidLines == 2

ResMapLines ==
  {MapLine(App, <<"1", "0", "0", "0">>), MapLine(App, NullWord),
   MapLine(Db, <<"0">>), MapLine(Db, <<"a", "b", "c">>)}

ResMapFiles == {NoFile} \cup {FileOf(ls) : ls \in SeqsUpTo(ResMapLines, MaxMapLines)}

SubuidLineSet ==
  {SubuidRecord(Alice, <<"1", "0", "0", "0", "0", "0">>, Range),
   SubuidRecord(Alice, <<"0">>, Range),
   SubuidRecord(Root, <<"1", "0", "0", "0", "0", "0">>, Range),
   SubuidRecord(Alice, <<"a", "b", "c">>, Range),
   <<" ">>,
   <<"#", " ", "c">>}

SubuidFiles == {NoFile} \cup {FileOf(ls) : ls \in SeqsUpTo(SubuidLineSet, MaxSubuidLines)}

\* what the output file may hold before the run
StaleOutput == FileOf(<<MapLine(Core, <<"5">>)>>)

\* ---------------------------------------------------- Applicator inputs

\* the most entries of the host map the Applicator is given
MaxAppEntries == 3

AppNames == {App, Core, Db, SecretCert}

AppHostUids == {None, Some(0), Some(100999)}

\* a host map whose last entry has a value that is no UID
UnsupportedHostMap == FileOf(<<MapLine(App, <<"5">>), MapLine(Db, <<"a", "b", "c">>)>>)

\* host maps as the Resolver writes them, a missing one, and the unsupported one
AppHostFiles ==
  {res_write_yaml(m) : m \in MappingsOver(AppNames, AppHostUids, MaxAppEntries)}
    \cup {NoFile, UnsupportedHostMap}

\* return codes of setfacl
ReturnCodes == {0, 1}

\* ------------------------------------------------------- Scanner inputs

\* the most entries of the scanned root
MaxTreeEntries == 2

TreeNames == {Db, Database, Nginx, Core}

\* what root may hold under one name: a plain file, or a directory with any
\* of the two definition files
TreeEntries ==
  {[isdir |-> FALSE, files |-> EmptyMap]}
    \cup {[isdir |-> TRUE, files |-> fs] :
            fs \in MappingsOver({DockerfileName, DockerfileBaseName}, DockerfileContents,
                                Len(Candidates))}

Trees == MappingsOver(TreeNames, TreeEntries, MaxTreeEntries)

\* ------------------------------------------------------------------ state

VARIABLES
  storeKind,      \* who wrote the file: "scanner", "resolver", or "raw" (by hand)
  storeMapping,   \* the mapping that is saved
  storeFile,      \* the mapping file
  storeSaved,     \* whether the save has run
  storeLoaded     \* the result of each load: <<loader, yaml>> -> result

storeVars == <<storeKind, storeMapping, storeFile, storeSaved, storeLoaded>>

VARIABLES
  resMapFile,     \* the Resolver's input mapping file (--map)
  resSubuidFile,  \* the subuid registry (--subuid-file)
  resUid,         \* os.getuid() of the Resolver
  resYaml,        \* whether the Resolver imported the structured parser
  resOutFile,     \* the Resolver's output file (--output)
  container_map,  \* main's container_map
  subuid_base,    \* main's subuid_base
  host_map,       \* main's host_map
  resPc,          \* where main is: load, subuid, compute, write, done, fatal, idle
  resErr          \* the exception that ended main, "" when none

resVars == <<resMapFile, resSubuidFile, resUid, resYaml, resOutFile,
             container_map, subuid_base, host_map, resPc, resErr>>

VARIABLES
  appRootIsDir,   \* whether --dir is a directory
  appHostFile,    \* the Applicator's input mapping file (--map)
  appYaml,        \* whether the Applicator imported the structured parser
  appDirs,        \* the names n for which root/n is a directory
  appDryRun,      \* --dry-run
  appInstalled,   \* whether the setfacl command exists
  appHostMap,     \* main's host_map
  appItems,       \* sorted(host_map.items()), as names
  appIdx,         \* the position of main's loop in appItems
  processed,      \* main's processed
  appOut,         \* the lines main has printed: [msg, name, n]
  grants,         \* the setfacl commands that ran: [name, uid, rc]
  acl,            \* per directory, the UIDs granted rwx (user and group)
  appPc,          \* where main is: start, load, loop, done, fatal, idle
  appErr          \* the exception that ended main, "" when none

appVars == <<appRootIsDir, appHostFile, appYaml, appDirs, appDryRun, appInstalled,
             appHostMap, appItems, appIdx, processed, appOut, grants, acl,
             appPc, appErr>>

VARIABLES
  scanRootIsDir,  \* whether the Scanner's --dir is a directory
  tree,           \* the entries of root: name -> [isdir, files]
  scanItems,      \* sorted(os.scandir(root)), as names
  scanIdx,        \* the position of find_container_uids' loop in scanItems
  containers,     \* find_container_uids' containers
  consulted,      \* the paths find_uid_in_file was given, in order
  mapping,        \* main's mapping, once the aliases are added
  scanOutFile,    \* the Scanner's output file (--output)
  scanPc          \* where main is: start, scan, alias, write, done, fatal, idle

scanVars == <<scanRootIsDir, tree, scanItems, scanIdx, containers, consulted,
              mapping, scanOutFile, scanPc>>

VARIABLES
  findFile,       \* the definition file given to find_uid_in_file
  rawIdx,         \* read_effective_lines: the next physical line of the file
  pending,        \* read_effective_lines' pending
  findEof,        \* read_effective_lines has left its loop over the file
  logical,        \* the logical lines read_effective_lines has yielded
  tokens,         \* find_uid_in_file's tokens of the last logical line
  findUid,        \* what find_uid_in_file returns
  findPc          \* where find_uid_in_file is: raw, split, extract, done, idle

findVars == <<findFile, rawIdx, pending, findEof, logical, tokens, findUid, findPc>>

vars == <<storeVars, resVars, appVars, scanVars, findVars>>

\* ------------------------------------------------- the Mapping Store alone

Loaders == {"container", "host"} \X BOOLEAN

Pending == [kind |-> "pending", map |-> EmptyMap, exc |-> "", key |-> <<>>, val |-> <<>>]

StoreIdle ==
  /\ storeKind = "raw"
  /\ storeMapping = EmptyMap
  /\ storeFile = NoFile
  /\ storeSaved = FALSE
  /\ storeLoaded = [l \in Loaders |-> Pending]

ResIdle ==
  /\ resMapFile = NoFile
  /\ resSubuidFile = NoFile
  /\ resUid = 0
  /\ resYaml = FALSE
  /\ resOutFile = NoFile
  /\ container_map = EmptyMap
  /\ subuid_base = 0
  /\ host_map = EmptyMap
  /\ resPc = "idle"
  /\ resErr = ""

NoAcl == [n \in AppNames |-> {}]

AppIdle ==
  /\ appRootIsDir = FALSE
  /\ appHostFile = NoFile
  /\ appYaml = FALSE
  /\ appDirs = {}
  /\ appDryRun = FALSE
  /\ appInstalled = FALSE
  /\ appHostMap = EmptyMap
  /\ appItems = <<>>
  /\ appIdx = 1
  /\ processed = 0
  /\ appOut = <<>>
  /\ grants = <<>>
  /\ acl = NoAcl
  /\ appPc = "idle"
  /\ appErr = ""

FindIdle ==
  /\ findFile = NoFile
  /\ rawIdx = 1
  /\ pending = <<>>
  /\ findEof = FALSE
  /\ logical = <<>>
  /\ tokens = <<>>
  /\ findUid = None
  /\ findPc = "idle"

ScanIdle ==
  /\ scanRootIsDir = FALSE
  /\ tree = EmptyMap
  /\ scanItems = <<>>
  /\ scanIdx = 1
  /\ containers = EmptyMap
  /\ consulted = <<>>
  /\ mapping = EmptyMap
  /\ scanOutFile = NoFile
  /\ scanPc = "idle"

StoreInit ==
  /\ ResIdle
  /\ AppIdle
  /\ ScanIdle
  /\ FindIdle
  /\ storeKind \in {"scanner", "resolver", "raw"}
  /\ storeMapping \in
       CASE storeKind = "scanner" ->
              MappingsOver(StoreNames, {None} \cup {Some(u) : u \in ScanUidStrings},
                           MaxEntries)
         [] storeKind = "resolver" ->
              MappingsOver(StoreNames, {None} \cup {Some(u) : u \in ResolvedUids},
                           MaxEntries)
         [] OTHER -> {EmptyMap}
  /\ storeFile \in IF storeKind = "raw" THEN RawFiles ELSE {NoFile}
  /\ storeSaved = (storeKind = "raw")
  /\ storeLoaded = [l \in Loaders |-> Pending]

\* the Scanner saves its mapping
StoreSaveScanner ==
  /\ storeKind = "scanner"
  /\ ~storeSaved
  /\ storeFile' = scan_write_yaml(storeMapping)
  /\ storeSaved' = TRUE
  /\ UNCHANGED <<storeKind, storeMapping, storeLoaded>>
  /\ UNCHANGED <<resVars, appVars, scanVars, findVars>>

\* the Resolver saves its mapping
StoreSaveResolver ==
  /\ storeKind = "resolver"
  /\ ~storeSaved
  /\ storeFile' = res_write_yaml(storeMapping)
  /\ storeSaved' = TRUE
  /\ UNCHANGED <<storeKind, storeMapping, storeLoaded>>
  /\ UNCHANGED <<resVars, appVars, scanVars, findVars>>

\* the Resolver loads the file, with or without the structured parser
StoreLoadContainer ==
  /\ storeSaved
  /\ \E yaml \in BOOLEAN :
       /\ storeLoaded[<<"container", yaml>>] = Pending
       /\ storeLoaded' =
            [storeLoaded EXCEPT ![<<"container", yaml>>] = load_container_map(storeFile, yaml)]
  /\ UNCHANGED <<storeKind, storeMapping, storeFile, storeSaved>>
  /\ UNCHANGED <<resVars, appVars, scanVars, findVars>>

\* the Applicator loads the file, with or without the structured parser
StoreLoadHost ==
  /\ storeSaved
  /\ \E yaml \in BOOLEAN :
       /\ storeLoaded[<<"host", yaml>>] = Pending
       /\ storeLoaded' =
            [storeLoaded EXCEPT ![<<"host", yaml>>] = load_host_map(storeFile, yaml)]
  /\ UNCHANGED <<storeKind, storeMapping, storeFile, storeSaved>>
  /\ UNCHANGED <<resVars, appVars, scanVars, findVars>>

StoreNext ==
  \/ StoreSaveScanner
  \/ StoreSaveResolver
  \/ StoreLoadContainer
  \/ StoreLoadHost

SpecStore == StoreInit /\ [][StoreNext]_vars

\* ------------------------------------------- the Resolver's main, by step

ResInit ==
  /\ StoreIdle
  /\ AppIdle
  /\ ScanIdle
  /\ FindIdle
  /\ resMapFile \in ResMapFiles
  /\ resSubuidFile \in SubuidFiles
  /\ resUid \in OsUids
  /\ resYaml \in BOOLEAN
  /\ resOutFile \in {NoFile, StaleOutput}
  /\ container_map = EmptyMap
  /\ subuid_base = 0
  /\ host_map = EmptyMap
  /\ resPc = "load"
  /\ resErr = ""

\* container_map = load_container_map(map_path)
ResLoad ==
  /\ resPc = "load"
  /\ LET r == load_container_map(resMapFile, resYaml)
     IN  IF r.kind = "ok"
           THEN container_map' = r.map /\ resPc' = "subuid" /\ resErr' = resErr
         ELSE container_map' = container_map /\ resPc' = "fatal" /\ resErr' = r.exc
  /\ UNCHANGED <<resMapFile, resSubuidFile, resUid, resYaml, resOutFile,
                 subuid_base, host_map>>
  /\ UNCHANGED <<storeVars, appVars, scanVars, findVars>>

\* subuid_base = get_current_user_subuid(args.subuid_file)
ResSubuid ==
  /\ resPc = "subuid"
  /\ LET r == get_current_user_subuid(resSubuidFile, LoginName(resUid))
     IN  IF r.kind = "ok"
           THEN subuid_base' = r.base /\ resPc' = "compute" /\ resErr' = resErr
         ELSE subuid_base' = subuid_base /\ resPc' = "fatal" /\ resErr' = r.exc
  /\ UNCHANGED <<resMapFile, resSubuidFile, resUid, resYaml, resOutFile,
                 container_map, host_map>>
  /\ UNCHANGED <<storeVars, appVars, scanVars, findVars>>

\* host_map = compute_host_uids(container_map, subuid_base)
ResCompute ==
  /\ resPc = "compute"
  /\ host_map' = compute_host_uids(container_map, subuid_base, resUid)
  /\ resPc' = "write"
  /\ UNCHANGED <<resMapFile, resSubuidFile, resUid, resYaml, resOutFile,
                 container_map, subuid_base, resErr>>
  /\ UNCHANGED <<storeVars, appVars, scanVars, findVars>>

\* write_yaml(host_map, output_path) and the summary line
ResWrite ==
  /\ resPc = "write"
  /\ resOutFile' = res_write_yaml(host_map)
  /\ resPc' = "done"
  /\ UNCHANGED <<resMapFile, resSubuidFile, resUid, resYaml,
                 container_map, subuid_base, host_map, resErr>>
  /\ UNCHANGED <<storeVars, appVars, scanVars, findVars>>

ResNext ==
  \/ ResLoad
  \/ ResSubuid
  \/ ResCompute
  \/ ResWrite

SpecResolve == ResInit /\ [][ResNext]_vars


\* ----------------------------------------- the Applicator's main, by step

AppInit ==
  /\ StoreIdle
  /\ ResIdle
  /\ ScanIdle
  /\ FindIdle
  /\ appRootIsDir \in BOOLEAN
  /\ appHostFile \in AppHostFiles
  /\ appYaml \in BOOLEAN
  /\ appDirs \in SUBSET AppNames
  /\ appDryRun \in BOOLEAN
  /\ appInstalled \in BOOLEAN
  /\ appHostMap = EmptyMap
  /\ appItems = <<>>
  /\ appIdx = 1
  /\ processed = 0
  /\ appOut = <<>>
  /\ grants = <<>>
  /\ acl = NoAcl
  /\ appPc = "start"
  /\ appErr = ""

\* if not os.path.isdir(root): raise SystemExit
AppStart ==
  /\ appPc = "start"
  /\ IF appRootIsDir THEN appPc' = "load" /\ appErr' = appErr
     ELSE appPc' = "fatal" /\ appErr' = "SystemExit: Directory not found"
  /\ UNCHANGED <<appRootIsDir, appHostFile, appYaml, appDirs, appDryRun, appInstalled,
                 appHostMap, appItems, appIdx, processed, appOut, grants, acl>>
  /\ UNCHANGED <<storeVars, resVars, scanVars, findVars>>

\* host_map = load_host_map(...); processed = 0; sorted(host_map.items())
AppLoad ==
  /\ appPc = "load"
  /\ LET r == load_host_map(appHostFile, appYaml)
     IN  IF r.kind = "ok"
           THEN /\ appHostMap' = r.map
                /\ appItems' = SortedKeys(DOMAIN r.map)
                /\ appPc' = "loop"
                /\ appErr' = appErr
         ELSE /\ appPc' = "fatal"
              /\ appErr' = r.exc
              /\ UNCHANGED <<appHostMap, appItems>>
  /\ appIdx' = 1
  /\ processed' = 0
  /\ UNCHANGED <<appRootIsDir, appHostFile, appYaml, appDirs, appDryRun, appInstalled,
                 appOut, grants, acl>>
  /\ UNCHANGED <<storeVars, resVars, scanVars, findVars>>

\* one iteration of  for name, uid in sorted(host_map.items())
AppEntry ==
  /\ appPc = "loop"
  /\ appIdx <= Len(appItems)
  /\ LET name == appItems[appIdx]
         uid == appHostMap[name]
         why == skip_reason(uid, name \in appDirs)
     IN  IF why # ""
           THEN /\ appOut' = Append(appOut, [msg |-> why, name |-> name, n |-> 0])
                /\ appIdx' = appIdx + 1
                /\ UNCHANGED <<processed, grants, acl, appPc, appErr>>
         ELSE \E rc \in ReturnCodes, applied \in BOOLEAN :
           LET r == apply_setfacl(appDryRun, appInstalled, rc) IN
           /\ rc = 0 => applied
           /\ (~r.spawned) => (rc = 0 /\ applied)
           /\ grants' = IF r.spawned
                          THEN Append(grants, [name |-> name, uid |-> uid[1], rc |-> rc])
                        ELSE grants
           /\ acl' = IF r.spawned /\ applied
                       THEN [acl EXCEPT ![name] = @ \cup {uid[1]}]
                     ELSE acl
           /\ appOut' = IF r.printed
                          THEN Append(appOut, [msg |-> "DRY-RUN", name |-> name, n |-> uid[1]])
                        ELSE appOut
           /\ IF r.exc = ""
                THEN /\ processed' = count_processed(processed, appDryRun)
                     /\ appIdx' = appIdx + 1
                     /\ UNCHANGED <<appPc, appErr>>
              ELSE /\ appPc' = "fatal"
                   /\ appErr' = r.exc
                   /\ UNCHANGED <<processed, appIdx>>
  /\ UNCHANGED <<appRootIsDir, appHostFile, appYaml, appDirs, appDryRun, appInstalled,
                 appHostMap, appItems>>
  /\ UNCHANGED <<storeVars, resVars, scanVars, findVars>>

\* print(f"Processed {processed} container directories with setfacl")
AppSummary ==
  /\ appPc = "loop"
  /\ appIdx > Len(appItems)
  /\ appOut' = Append(appOut, [msg |-> "Processed", name |-> <<>>, n |-> processed])
  /\ appPc' = "done"
  /\ UNCHANGED <<appRootIsDir, appHostFile, appYaml, appDirs, appDryRun, appInstalled,
                 appHostMap, appItems, appIdx, processed, grants, acl, appErr>>
  /\ UNCHANGED <<storeVars, resVars, scanVars, findVars>>

AppNext ==
  \/ AppStart
  \/ AppLoad
  \/ AppEntry
  \/ AppSummary

SpecApply == AppInit /\ [][AppNext]_vars

\* ------------------------------ a run of either stage: Resolver, Applicator

StagesInit == ResInit \/ AppInit

StagesNext ==
  \/ ResNext
  \/ AppNext

SpecStages == StagesInit /\ [][StagesNext]_vars


\* -------------------------------------------- the Scanner's main, by step

ScanInit ==
  /\ StoreIdle
  /\ ResIdle
  /\ AppIdle
  /\ FindIdle
  /\ scanRootIsDir \in BOOLEAN
  /\ tree \in Trees
  /\ scanItems = <<>>
  /\ scanIdx = 1
  /\ containers = EmptyMap
  /\ consulted = <<>>
  /\ mapping = EmptyMap
  /\ scanOutFile \in {NoFile, StaleOutput}
  /\ scanPc = "start"

\* if not os.path.isdir(root): raise SystemExit; sorted(os.scandir(root))
ScanStart ==
  /\ scanPc = "start"
  /\ IF scanRootIsDir
       THEN scanPc' = "scan" /\ scanItems' = SortedKeys(DOMAIN tree)
     ELSE scanPc' = "fatal" /\ scanItems' = scanItems
  /\ UNCHANGED <<scanRootIsDir, tree, scanIdx, containers, consulted, mapping,
                 scanOutFile>>
  /\ UNCHANGED <<storeVars, resVars, appVars, findVars>>

\* one iteration of find_container_uids' loop
ScanEntry ==
  /\ scanPc = "scan"
  /\ scanIdx <= Len(scanItems)
  /\ LET name == scanItems[scanIdx]
         r == scan_entry(name, tree[name])
     IN  /\ containers' = IF r.skip THEN containers ELSE Put(containers, name, r.uid)
         /\ consulted' = consulted \o r.reads
  /\ scanIdx' = scanIdx + 1
  /\ UNCHANGED <<scanRootIsDir, tree, scanItems, mapping, scanOutFile, scanPc>>
  /\ UNCHANGED <<storeVars, resVars, appVars, findVars>>

\* mapping = find_container_uids(root), then the alias loop
ScanAliases ==
  /\ scanPc = "scan"
  /\ scanIdx > Len(scanItems)
  /\ mapping' = apply_aliases(containers)
  /\ scanPc' = "write"
  /\ UNCHANGED <<scanRootIsDir, tree, scanItems, scanIdx, containers, consulted,
                 scanOutFile>>
  /\ UNCHANGED <<storeVars, resVars, appVars, findVars>>

\* write_yaml(mapping, output_path) and the summary line
ScanWrite ==
  /\ scanPc = "write"
  /\ scanOutFile' = scan_write_yaml(mapping)
  /\ scanPc' = "done"
  /\ UNCHANGED <<scanRootIsDir, tree, scanItems, scanIdx, containers, consulted,
                 mapping>>
  /\ UNCHANGED <<storeVars, resVars, appVars, findVars>>

ScanNext ==
  \/ ScanStart
  \/ ScanEntry
  \/ ScanAliases
  \/ ScanWrite

SpecScan == ScanInit /\ [][ScanNext]_vars


\* ------------------------------------------- find_uid_in_file inputs

\* the most physical lines of a definition file, and the most tokens of a
\* one-line definition file
MaxPhysicalLines == 3
MaxTokens == 3

\* an empty line
BlankLine ==
  <<>>
\* # -u 9
CommentLine ==
  <<"#", " ", "-", "u", " ", "9">>
\* USER app
UserLine ==
  <<"U", "S", "E", "R", " ", "a", "p", "p">>
\* RUN adduser -u 2000 app
AdduserLine ==
  <<"R", "U", "N", " ", "a", "d", "d", "u", "s", "e", "r", " ", "-", "u", " ", "2",
    "0", "0", "0", " ", "a", "p", "p">>
\* RUN adduser \   (a continuation)
ContinuedLine ==
  <<"R", "U", "N", " ", "a", "d", "d", "u", "s", "e", "r", " ", "\\">>
\* --uid x -u=7
PassedOverLine ==
  <<"-", "-", "u", "i", "d", " ", "x", " ", "-", "u", "=", "7">>
\* -u "3"
QuotedLine ==
  <<"-", "u", " ", "\"", "3", "\"">>
\* it's -u 4   (shlex raises ValueError)
UnbalancedLine ==
  <<"i", "t", "'", "s", " ", "-", "u", " ", "4">>

PhysicalLines ==
  {BlankLine, CommentLine, UserLine, AdduserLine,
   ContinuedLine, PassedOverLine, QuotedLine, UnbalancedLine}

\* tokens with and without a UID flag, with and without a numeric value
FlagTokens ==
  {<<"-", "u">>, <<"-", "-", "u", "i", "d">>, <<"5">>,
   <<"x">>, <<"-", "u", "6">>, <<"-", "u", "=", "7">>,
   <<"-", "-", "u", "i", "d", "=", "8">>, <<"-", "u", "x">>, <<"-", "-", "u", "i", "d", "=", "y">>}

\* " ".join(tokens)
RECURSIVE JoinTokens(_)
JoinTokens(ts) ==
  IF ts = <<>> THEN <<>>
  ELSE IF Len(ts) = 1 THEN ts[1]
  ELSE ts[1] \o <<" ">> \o JoinTokens(Tail(ts))

\* definition files: any lines of PhysicalLines, and one line of any tokens
FindFiles ==
  {FileOf(ls) : ls \in SeqsUpTo(PhysicalLines, MaxPhysicalLines)}
    \cup {FileOf(<<JoinTokens(ts)>>) : ts \in SeqsUpTo(FlagTokens, MaxTokens) \ {<<>>}}


\* ------------------------------------------ find_uid_in_file, by step

FindInit ==
  /\ StoreIdle
  /\ ResIdle
  /\ AppIdle
  /\ ScanIdle
  /\ findFile \in FindFiles
  /\ rawIdx = 1
  /\ pending = <<>>
  /\ findEof = FALSE
  /\ logical = <<>>
  /\ tokens = <<>>
  /\ findUid = None
  /\ findPc = "raw"

\* read_effective_lines: one iteration of  for raw_line in handle
FindRaw ==
  /\ findPc = "raw"
  /\ ~findEof
  /\ rawIdx <= Len(findFile.lines)
  /\ LET s == effective_step(findFile.lines[rawIdx], pending)
     IN  /\ pending' = s.pending
         /\ IF s.yield # None
              THEN logical' = Append(logical, s.yield[1]) /\ findPc' = "split"
            ELSE logical' = logical /\ findPc' = "raw"
  /\ rawIdx' = rawIdx + 1
  /\ UNCHANGED <<findFile, findEof, tokens, findUid>>
  /\ UNCHANGED <<storeVars, resVars, appVars, scanVars>>

\* read_effective_lines after its loop: the pending text is yielded, and the
\* generator ends; find_uid_in_file returns None when the generator has ended
FindEnd ==
  /\ findPc = "raw"
  /\ findEof \/ rawIdx > Len(findFile.lines)
  /\ IF ~findEof /\ pending # <<>>
       THEN /\ logical' = Append(logical, Strip(pending))
            /\ pending' = <<>>
            /\ findPc' = "split"
     ELSE /\ findPc' = "done"
          /\ UNCHANGED <<logical, pending>>
  /\ findEof' = TRUE
  /\ UNCHANGED <<findFile, rawIdx, tokens, findUid>>
  /\ UNCHANGED <<storeVars, resVars, appVars, scanVars>>

\* tokens = shlex.split(line, comments=True), or line.split() on ValueError
FindSplit ==
  /\ findPc = "split"
  /\ tokens' = line_tokens(logical[Len(logical)])
  /\ findPc' = "extract"
  /\ UNCHANGED <<findFile, rawIdx, pending, findEof, logical, findUid>>
  /\ UNCHANGED <<storeVars, resVars, appVars, scanVars>>

\* uid = extract_uid_from_tokens(tokens); if uid is not None: return uid
FindExtract ==
  /\ findPc = "extract"
  /\ LET uid == extract_uid_from_tokens(tokens)
     IN  IF uid # None THEN findUid' = uid /\ findPc' = "done"
         ELSE findUid' = findUid /\ findPc' = "raw"
  /\ UNCHANGED <<findFile, rawIdx, pending, findEof, logical, tokens>>
  /\ UNCHANGED <<storeVars, resVars, appVars, scanVars>>

FindNext ==
  \/ FindRaw
  \/ FindEnd
  \/ FindSplit
  \/ FindExtract

SpecFind == FindInit /\ [][FindNext]_vars


\* ================================================================ claims

\* C7: a mapping of container names to a non-negative integer or absent, saved
\* by the Resolver's write_yaml and loaded by load_container_map or
\* load_host_map (with either parser), comes back identical: the same names,
\* absent still absent (not 0), every integer unchanged; the empty mapping is
\* saved as the empty-mapping literal.
NonNegative(m) == \A n \in DOMAIN m : m[n] = None \/ m[n][1] >= 0

C8_FallbackEquivalence ==
  (storeKind \in {"scanner", "resolver"} /\ storeSaved)
    => \A ld \in {"container", "host"} :
         (storeLoaded[<<ld, TRUE>>] # Pending /\ storeLoaded[<<ld, FALSE>>] # Pending)
           => /\ storeLoaded[<<ld, TRUE>>].kind = "ok"
              /\ storeLoaded[<<ld, FALSE>>] = storeLoaded[<<ld, TRUE>>]

\* C9: loading a mapping file: a missing file is fatal; a whitespace-only file
\* is the empty mapping; in a one-entry file, a null-like token gives an
\* absent UID, a purely numeric token its (decimal) integer, and any other
\* non-empty token a fatal error naming the container and the raw value.
C9_Expected(f, name, tok) ==
  LET raw == StripQuote(tok)
  IN  IF raw = <<>> \/ raw \in {NullWord, Tilde} THEN {Ok(Put(EmptyMap, name, None))}
      ELSE IF isdigit(raw) THEN {Ok(Put(EmptyMap, name, Some(DecimalOf(raw))))}
      ELSE {Fatal(e, name, raw) :
              e \in {"ValueError: Unsupported value",
                     "ValueError: Unsupported UID value",
                     "SystemExit: Unsupported UID value"}}

C9_LoadCoercion ==
  storeKind = "raw"
    => \A l \in Loaders :
         storeLoaded[l] # Pending
           => /\ ~storeFile.exists => storeLoaded[l].kind = "fatal"
              /\ (storeFile.exists /\ IsBlankContent(storeFile))
                   => storeLoaded[l] = Ok(EmptyMap)
              /\ \A tok \in RawTokens :
                   storeFile = FileOf(<<MapLine(App, tok)>>)
                     => storeLoaded[l] \in C9_Expected(storeFile, App, tok)

\* C1: for every subuid base and every present container UID, the host UID
\* is base + uid when the caller's OS uid is 0 and base + uid - 1 otherwise
\* (base 100000, UID 1000: 101000 as root, 100999 as non-root).
C1_OffsetArithmetic ==
  resPc \in {"write", "done"}
    => \A name \in DOMAIN container_map :
         container_map[name] # None
           => /\ name \in DOMAIN host_map
              /\ resUid = 0
                   => host_map[name] = Some(subuid_base + container_map[name][1])
              /\ resUid # 0
                   => host_map[name] = Some(subuid_base + container_map[name][1] - 1)
              /\ (subuid_base = 100000 /\ container_map[name] = Some(1000))
                   => host_map[name] = Some(IF resUid = 0 THEN 101000 ELSE 100999)

\* a non-root run with base 100000 has mapped UID 1000 to 100999
C1_Witness ==
  /\ resPc = "done"
  /\ resUid # 0
  /\ subuid_base = 100000
  /\ App \in DOMAIN container_map
  /\ container_map[App] = Some(1000)
  /\ host_map[App] = Some(100999)

\* the keys of a written mapping file
C2_FileKeys(f) ==
  {SubSeq(f.lines[i], 1, IndexOf(f.lines[i], ":") - 1) :
     i \in {j \in 1..Len(f.lines) : f.lines[j] # EmptyMappingLiteral}}

\* C2: the Resolver's output mapping (in memory and as written) has exactly
\* the container names of its input mapping, whatever the output file held
\* before; an absent container UID gives an absent host UID (written as
\* null), and container UID 0 gives a present host UID.
C2_SameNames ==
  /\ resPc \in {"write", "done"}
       => /\ DOMAIN host_map = DOMAIN container_map
          /\ \A name \in DOMAIN container_map :
               /\ container_map[name] = None => host_map[name] = None
               /\ container_map[name] = Some(0) => host_map[name] # None
  /\ resPc = "done"
       => /\ resOutFile.exists
          /\ C2_FileKeys(resOutFile) = DOMAIN container_map
          /\ \A name \in DOMAIN container_map :
               container_map[name] = None
                 <=> \E i \in 1..Len(resOutFile.lines) :
                       resOutFile.lines[i] = MapLine(name, NullWord)

\* a run over an input with an absent UID and a UID 0 has replaced an output
\* file that held another name
C2_Witness ==
  /\ resPc = "done"
  /\ resMapFile = FileOf(<<MapLine(App, NullWord), MapLine(Db, <<"0">>)>>)
  /\ host_map = (App :> None) @@ (Db :> Some(subuid_base - 1))
  /\ resOutFile # StaleOutput

\* an entry the Applicator grants: it has a host UID and its directory exists
Eligible(name) == appHostMap[name] # None /\ name \in appDirs

SkipMessages == {"Skipping: no host UID defined", "Skipping: directory not found"}

\* the positions of the printed lines that report name as skipped
SkipsOf(name) ==
  {i \in 1..Len(appOut) : appOut[i].name = name /\ appOut[i].msg \in SkipMessages}

\* the entries main's loop has passed that were, or were not, eligible
PassedEligible == {i \in 1..(appIdx - 1) : Eligible(appItems[i])}
PassedSkipped == {i \in 1..(appIdx - 1) : ~Eligible(appItems[i])}

C4_State ==
  /\ \A i \in 1..Len(appItems) :
       LET name == appItems[i] IN
       ~Eligible(name)
         => /\ \A g \in 1..Len(grants) : grants[g].name # name
            /\ \A o \in 1..Len(appOut) :
                 appOut[o].msg = "DRY-RUN" => appOut[o].name # name
            /\ acl[name] = {}
            /\ i < appIdx => Cardinality(SkipsOf(name)) = 1
            /\ i >= appIdx => SkipsOf(name) = {}
  /\ processed = Cardinality(PassedEligible)
  /\ Cardinality({o \in 1..Len(appOut) : appOut[o].msg \in SkipMessages})
       = Cardinality(PassedSkipped)
  /\ (appPc = "fatal" /\ appItems # <<>>) => Eligible(appItems[appIdx])
  /\ appPc = "done" => appIdx = Len(appItems) + 1

\* C4: an entry whose host UID is absent, or whose directory root/<name> does
\* not exist, gets no grant (run or dry-run), is reported as skipped exactly
\* once and not counted as processed, never ends the run in an error, and the
\* loop goes on to the entries after it; no directory is ever created.
C4_SkipSemantics == [](C4_State) /\ [][appDirs' = appDirs]_vars

\* a finished real run that skipped an entry without UID and an entry without
\* directory, and granted an entry after them
C4_Witness ==
  /\ appPc = "done"
  /\ ~appDryRun
  /\ appItems = <<App, Core, Db>>
  /\ appHostMap[App] = None
  /\ appHostMap[Core] # None /\ Core \notin appDirs
  /\ Eligible(Db)
  /\ Len(grants) = 1 /\ grants[1].name = Db
  /\ processed = 1

\* C5: in dry-run mode no setfacl command runs and no ACL changes, each
\* eligible entry passed has its command printed, and a finished run, dry or
\* real, reports as processed the number of eligible entries of the map: the
\* same count in both modes.
C5_DryRun ==
  /\ appDryRun
       => /\ grants = <<>>
          /\ acl = NoAcl
          /\ \A i \in PassedEligible :
               \E o \in 1..Len(appOut) :
                 appOut[o] = [msg |-> "DRY-RUN", name |-> appItems[i],
                              n |-> appHostMap[appItems[i]][1]]
  /\ appPc = "done"
       => /\ processed = Cardinality({n \in DOMAIN appHostMap : Eligible(n)})
          /\ appOut[Len(appOut)] = [msg |-> "Processed", name |-> <<>>, n |-> processed]

\* a finished dry run over a map with two eligible entries and a skipped one
C5_Witness ==
  /\ appPc = "done"
  /\ appDryRun
  /\ processed = 2
  /\ Cardinality(DOMAIN appHostMap) = 3
  /\ grants = <<>>

\* the names of the eligible entries among the first k of appItems, in order
RECURSIVE EligiblePrefix(_)
EligiblePrefix(k) ==
  IF k = 0 THEN <<>>
  ELSE IF Eligible(appItems[k]) THEN Append(EligiblePrefix(k - 1), appItems[k])
  ELSE EligiblePrefix(k - 1)

GrantFailed == appPc = "fatal" /\ appErr = "SystemExit: setfacl failed"
ToolMissing == appPc = "fatal" /\ appErr = "SystemExit: setfacl command not found"

\* C6: entries are taken in ascending name order; a real run has run setfacl
\* exactly once, successfully, for each eligible entry passed, in that order;
\* a non-zero exit or a missing setfacl ends the run in a fatal error at that
\* (eligible) entry, with no command for any later entry and no summary line.
C6_FailFast ==
  /\ \A i, j \in 1..Len(appItems) : i < j => StrLess(appItems[i], appItems[j])
  /\ ~appDryRun
       => /\ [g \in 1..Len(grants) |-> grants[g].name]
               = EligiblePrefix(appIdx - 1)
                   \o (IF GrantFailed THEN <<appItems[appIdx]>> ELSE <<>>)
          /\ \A g \in 1..Len(grants) :
               /\ grants[g].uid = appHostMap[grants[g].name][1]
               /\ grants[g].rc # 0 <=> (GrantFailed /\ g = Len(grants))
  /\ (GrantFailed \/ ToolMissing)
       => /\ ~appDryRun
          /\ Eligible(appItems[appIdx])
          /\ ToolMissing <=> ~appInstalled
  /\ appPc = "fatal"
       => \A o \in 1..Len(appOut) : appOut[o].msg # "Processed"

\* a real run that granted the first entry and failed on the second of three
C6_Witness ==
  /\ GrantFailed
  /\ appItems = <<App, Core, Db>>
  /\ appIdx = 2
  /\ Eligible(Db)
  /\ Len(grants) = 2
  /\ grants[1].name = App /\ grants[1].rc = 0
  /\ grants[2].name = Core /\ grants[2].rc = 1

AliasNames == {alias_pairs[i][1] : i \in 1..Len(alias_pairs)}

\* C3: for each alias pair (A -> B) of the alias table: if the scan produced
\* no entry for A, then after alias propagation result[A] equals result[B]
\* (absent when B is absent or unset); if the scan produced an entry for A
\* it is unchanged; no entry of a non-alias name is changed or added.
C3_AliasInvariant ==
  scanPc \in {"write", "done"}
    => /\ \A i \in 1..Len(alias_pairs) :
            LET A == alias_pairs[i][1]
                B == alias_pairs[i][2]
            IN  /\ A \in DOMAIN mapping
                /\ A \notin DOMAIN containers
                     => /\ mapping[A] = Get(mapping, B)
                        /\ mapping[A] = Get(containers, B)
                /\ A \in DOMAIN containers => mapping[A] = containers[A]
       /\ DOMAIN mapping \ AliasNames = DOMAIN containers \ AliasNames
       /\ \A n \in DOMAIN containers \ AliasNames : mapping[n] = containers[n]

\* database was scanned with its own UID and kept it; secret/cert was not
\* scanned and took nginx's UID; core was not scanned, so secret/core is absent
C3_Witness ==
  /\ scanPc = "done"
  /\ containers = (Nginx :> Some(<<"2", "0", "0", "0">>))
                     @@ (Database :> Some(<<"0", "1", "0">>))
  /\ mapping[Database] = Some(<<"0", "1", "0">>)
  /\ mapping[SecretCert] = Some(<<"2", "0", "0", "0">>)
  /\ mapping[SecretCore] = None

\* the UID that each definition file of the scanned trees holds
C10_UidOf(f) ==
  CASE f = DockerfileNoUid -> None
    [] f = DockerfileUser2000 -> Some(<<"2", "0", "0", "0">>)
    [] f = DockerfileContinued010 -> Some(<<"0", "1", "0">>)

\* C10: of the entries find_container_uids has passed: one that is no
\* directory, or a directory with neither Dockerfile nor Dockerfile.base, is
\* no key of the result; a directory with at least one of them is a key; when
\* Dockerfile yields a UID it is the result and Dockerfile.base is not read;
\* Dockerfile.base is read only when Dockerfile is missing or yields no UID,
\* and then decides the result; when no file yields a UID the value is absent.
C10_Precedence ==
  \A i \in 1..(scanIdx - 1) :
    LET name == scanItems[i]
        e == tree[name]
        main == FileIn(e, DockerfileName)
        base == FileIn(e, DockerfileBaseName)
        mainUid == IF main.exists THEN C10_UidOf(main) ELSE None
        baseUid == IF base.exists THEN C10_UidOf(base) ELSE None
        read(c) == \E k \in 1..Len(consulted) : consulted[k] = PathOf(name, c)
    IN  /\ (~e.isdir \/ (~main.exists /\ ~base.exists))
             => name \notin DOMAIN containers /\ ~read(DockerfileName)
                  /\ ~read(DockerfileBaseName)
        /\ (e.isdir /\ (main.exists \/ base.exists))
             => /\ name \in DOMAIN containers
                /\ mainUid # None
                     => containers[name] = mainUid /\ ~read(DockerfileBaseName)
                /\ mainUid = None => containers[name] = baseUid
                /\ read(DockerfileBaseName) <=> (base.exists /\ mainUid = None)
                /\ read(DockerfileName) <=> main.exists

\* a directory with both files: Dockerfile gave 2000, Dockerfile.base (which
\* holds 010) was not read; and a directory whose Dockerfile has no UID, so
\* Dockerfile.base was read and gave 010
C10_Witness ==
  /\ scanPc = "done"
  /\ Db \in DOMAIN tree /\ Core \in DOMAIN tree
  /\ tree[Db] = [isdir |-> TRUE,
                 files |-> (DockerfileName :> DockerfileUser2000)
                             @@ (DockerfileBaseName :> DockerfileContinued010)]
  /\ tree[Core] = [isdir |-> TRUE,
                   files |-> (DockerfileName :> DockerfileNoUid)
                               @@ (DockerfileBaseName :> DockerfileContinued010)]
  /\ containers = (Db :> Some(<<"2", "0", "0", "0">>)) @@ (Core :> Some(<<"0", "1", "0">>))
  /\ consulted = <<PathOf(Core, DockerfileName), PathOf(Core, DockerfileBaseName),
                   PathOf(Db, DockerfileName)>>


\* the registry lines that are records of username: not blank, no comment,
\* at least three fields, the first one equal to username
C12_Matching(f, username) ==
  {i \in 1..Len(f.lines) :
     LET line == Strip(f.lines[i])
     IN  /\ line # <<>>
         /\ Head(line) # "#"
         /\ Len(Split(line, ":")) >= 3
         /\ Split(line, ":")[1] = username}

\* the base field of the first record of username
C12_FirstBase(f, username) ==
  LET first == CHOOSE i \in C12_Matching(f, username) :
                 \A j \in C12_Matching(f, username) : i <= j
  IN  Split(Strip(f.lines[first]), ":")[2]

C12_SubuidErrors ==
  {"SystemExit: subuid file not found", "SystemExit: Invalid subuid base",
   "SystemExit: No subuid entry found for user"}

\* C12: the base the Resolver goes on with is the second field of the first
\* record, in file order, of the invoking user's login name (blank lines,
\* comments and other users' records do not count); when that field is no
\* integer the run is fatal even if a later record of the user is valid; a
\* registry without a record of the user, or a missing registry, is fatal,
\* and a fatal run has no base and computes nothing.
C12_FirstMatchingRecord ==
  LET username == LoginName(resUid)
      matching == C12_Matching(resSubuidFile, username)
  IN  /\ resPc \in {"compute", "write", "done"}
           => /\ resSubuidFile.exists
              /\ matching # {}
              /\ StrOfInt(subuid_base) = C12_FirstBase(resSubuidFile, username)
      /\ (resPc = "fatal" /\ resErr \in C12_SubuidErrors)
           => /\ subuid_base = 0
              /\ host_map = EmptyMap
              /\ resErr = "SystemExit: subuid file not found" <=> ~resSubuidFile.exists
              /\ resErr = "SystemExit: No subuid entry found for user"
                   <=> (resSubuidFile.exists /\ matching = {})
              /\ resErr = "SystemExit: Invalid subuid base"
                   <=> /\ resSubuidFile.exists
                       /\ matching # {}
                       /\ ~isdigit(C12_FirstBase(resSubuidFile, username))
      /\ (resPc = "fatal" /\ resErr \notin C12_SubuidErrors)
           => load_container_map(resMapFile, resYaml).kind = "fatal"

\* alice's first record has base abc and her second one base 100000: the run
\* is fatal
C12_Witness ==
  /\ resUid # 0
  /\ resSubuidFile =
       FileOf(<<SubuidRecord(Alice, <<"a", "b", "c">>, Range),
                SubuidRecord(Alice, <<"1", "0", "0", "0", "0", "0">>, Range)>>)
  /\ resPc = "fatal"
  /\ resErr = "SystemExit: Invalid subuid base"

\* the values of a written mapping file that carry a minus sign
C13_NegativeLines(f) ==
  {i \in 1..Len(f.lines) :
     LET k == IndexOf(f.lines[i], ":")
     IN  k # 0 /\ IndexOf(SubSeq(f.lines[i], k + 1, Len(f.lines[i])), "-") # 0}

\* C13: every host UID the Resolver computes, and every one it writes, is a
\* non-negative integer or absent, whatever base the registry gives and
\* whoever the caller is (base 0 and container UID 0 for a non-root caller
\* included).
C13_HostUidsNonNegative ==
  /\ resPc \in {"write", "done"}
       => \A name \in DOMAIN host_map :
            host_map[name] = None \/ host_map[name][1] >= 0
  /\ resPc = "done" => C13_NegativeLines(resOutFile) = {}


\* the Resolver's inputs are all usable: the mapping has no unsupported
\* value, the registry has a record of the user, the first one with a base
C14_ResolverInputsValid ==
  /\ resMapFile.exists
  /\ \A i \in 1..Len(resMapFile.lines) :
       resMapFile.lines[i] # MapLine(Db, <<"a", "b", "c">>)
  /\ resSubuidFile.exists
  /\ C12_Matching(resSubuidFile, LoginName(resUid)) # {}
  /\ isdigit(C12_FirstBase(resSubuidFile, LoginName(resUid)))

\* the errors of the Applicator's root check and of its load
C14_LoadErrors ==
  {"SystemExit: Directory not found", "SystemExit: Host UID map file not found",
   "SystemExit: Host UID map must be a YAML mapping",
   "SystemExit: Unsupported UID value", "ValueError: Unsupported UID value"}

\* the Applicator has neither run nor printed a grant
C14_NoGrant ==
  /\ grants = <<>>
  /\ acl = NoAcl
  /\ \A i \in 1..Len(appOut) : appOut[i].msg # "DRY-RUN"

C14_State ==
  /\ resPc = "fatal" => (resOutFile \in {NoFile, StaleOutput} /\ host_map = EmptyMap)
  /\ (resPc # "idle" /\ ~C14_ResolverInputsValid)
       => (resOutFile \in {NoFile, StaleOutput} /\ resPc # "done")
  /\ (appPc = "fatal" /\ appErr \in C14_LoadErrors) => C14_NoGrant
  /\ (appPc # "idle" /\ (~appRootIsDir \/ appHostFile \in {NoFile, UnsupportedHostMap}))
       => (C14_NoGrant /\ appPc \in {"start", "load", "fatal"})

\* C14: a stage that ends in a fatal configuration or data error has done no
\* partial work.  A Resolver run with a missing or invalid mapping, a missing
\* registry, no record of the user or a malformed base leaves the output file
\* as it was: the file changes only in the step that completes the run.  An
\* Applicator run with a missing root, a missing map or an unsupported value
\* in any entry (the last one included) has run and printed no grant: the map
\* is loaded and validated as a whole before the first grant.
C14_NoPartialWork ==
  /\ [](C14_State)
  /\ [][resOutFile' # resOutFile => (resPc = "write" /\ resPc' = "done")]_vars
  /\ [][(resPc = "fatal" => resPc' = "fatal") /\ (appPc = "fatal" => appPc' = "fatal")]_vars

\* the map's first entry could be granted (directory there, setfacl there, no
\* dry run) and its last entry is unsupported: the run is fatal with no grant
C14_Witness ==
  /\ appPc = "fatal"
  /\ appRootIsDir
  /\ appHostFile = UnsupportedHostMap
  /\ App \in appDirs
  /\ appInstalled
  /\ ~appDryRun
  /\ appErr \in {"SystemExit: Unsupported UID value", "ValueError: Unsupported UID value"}
  /\ grants = <<>>


\* token i of ts is a UID flag with the numeric value v attached:
\* -u v, -uv, -u=v, --uid v, --uid=v
C11_Carries(ts, i, v) ==
  /\ isdigit(v)
  /\ \/ ts[i] \in {ShortFlag \o v, ShortFlag \o <<"=">> \o v, LongFlagEq \o v}
     \/ (ts[i] \in {ShortFlag, LongFlag} /\ i < Len(ts) /\ ts[i + 1] = v)

\* the numeric values attached to token i of ts
C11_ValuesAt(ts, i) ==
  {v \in {SubSeq(ts[i], k, Len(ts[i])) : k \in 1..Len(ts[i])}
           \cup (IF i < Len(ts) THEN {ts[i + 1]} ELSE {}) :
     C11_Carries(ts, i, v)}

\* the numeric value of the leftmost token of ts that has one, None when no
\* token has one
C11_First(ts) ==
  LET flagged == {i \in 1..Len(ts) : C11_ValuesAt(ts, i) # {}}
  IN  IF flagged = {} THEN None
      ELSE LET i == CHOOSE j \in flagged : \A m \in flagged : j <= m
           IN  Some(CHOOSE v \in C11_ValuesAt(ts, i) : TRUE)

\* C11: extraction goes through the tokens of a logical line from left to
\* right and returns the first purely numeric value attached to a UID flag
\* (-u N, -uN, -u=N, --uid N, --uid=N), passing over a flag whose value is not
\* numeric; find_uid_in_file returns the value of the first logical line that
\* has one and looks at no later line, so 'USER app' before
\* 'RUN adduser -u 2000 app' gives 2000; without any such line it returns None.
C11_FirstNumericFlag ==
  /\ findPc = "raw" => C11_First(tokens) = None
  /\ findPc = "done"
       => /\ findUid = find_uid_in_file(findFile)
          /\ findUid # None
               => /\ logical # <<>>
                  /\ tokens = line_tokens(logical[Len(logical)])
                  /\ findUid = C11_First(tokens)
                  /\ \A k \in 1..(Len(logical) - 1) :
                       C11_First(line_tokens(logical[k])) = None
          /\ findUid = None
               => /\ findEof
                  /\ \A k \in 1..Len(logical) : C11_First(line_tokens(logical[k])) = None
          /\ findFile = FileOf(<<UserLine, AdduserLine>>)
               => findUid = Some(<<"2", "0", "0", "0">>)

\* the file  --uid x -u=7  has given 7: the flag with the value x was passed over
C11_Witness ==
  /\ findPc = "done"
  /\ findFile = FileOf(<<PassedOverLine>>)
  /\ tokens = <<LongFlag, <<"x">>, <<"-", "u", "=", "7">>>>
  /\ findUid = Some(<<"7">>)


C15_IsBlank(line) == Strip(line) = <<>>
C15_IsComment(line) == ~C15_IsBlank(line) /\ Head(Strip(line)) = "#"
C15_IsContinued(line) ==
  ~C15_IsBlank(line) /\ ~C15_IsComment(line) /\ line[Len(line)] = "\\"

\* the physical lines without the comment lines
C15_Kept(lines) == SelectSeq(lines, LAMBDA line : ~C15_IsComment(line))

\* the positions of kept where a logical line ends; Len(kept) + 1 is the end
\* of the file.  A line that is not continued ends one; a blank line and the
\* end of the file end one when the line before is continued
C15_Ends(kept) ==
  {i \in 1..(Len(kept) + 1) :
     IF i = Len(kept) + 1 \/ C15_IsBlank(kept[i])
       THEN i > 1 /\ C15_IsContinued(kept[i - 1])
     ELSE ~C15_IsContinued(kept[i])}

\* where the logical line that ends at i starts: the first of the continued
\* lines that run up to i
C15_Start(kept, i) ==
  CHOOSE j \in 1..i :
    /\ \A m \in j..(i - 1) : C15_IsContinued(kept[m])
    /\ j = 1 \/ ~C15_IsContinued(kept[j - 1])

\* the text of kept[j..i]: each continued line without its marker and with a
\* space after it, then line i unless it is blank or the end of the file
RECURSIVE C15_Text(_, _, _)
C15_Text(kept, j, i) ==
  IF j < i
    THEN SubSeq(kept[j], 1, Len(kept[j]) - 1) \o <<" ">> \o C15_Text(kept, j + 1, i)
  ELSE IF i <= Len(kept) /\ ~C15_IsBlank(kept[i]) THEN kept[i]
  ELSE <<>>

\* the logical lines of a file, by the rules of the claim
C15_Expected(lines) ==
  LET kept == C15_Kept(lines)
      ends == C15_Ends(kept)
      end(k) == CHOOSE e \in ends : Cardinality({x \in ends : x <= e}) = k
  IN  [k \in 1..Cardinality(ends) |->
         Strip(C15_Text(kept, C15_Start(kept, end(k)), end(k)))]

\* the words of some lines, in order
RECURSIVE C15_WordsOf(_)
C15_WordsOf(lines) ==
  IF lines = <<>> THEN <<>> ELSE Words(Head(lines)) \o C15_WordsOf(Tail(lines))

\* the words of the kept lines, the continuation markers taken off
C15_SourceWords(lines) ==
  C15_WordsOf([i \in 1..Len(C15_Kept(lines)) |->
                 LET line == C15_Kept(lines)[i]
                 IN  IF C15_IsContinued(line) THEN SubSeq(line, 1, Len(line) - 1)
                     ELSE line])

\* C15: over any sequence of physical lines, read_effective_lines joins a
\* line that ends with the continuation marker with the next physical line
\* (marker taken off); a blank line flushes the pending line, so a continued
\* line before a blank line is yielded on its own; a comment line yields
\* nothing and leaves the pending text, which joins the next line that is no
\* comment; text pending at the end of the file is yielded; no logical line
\* is yielded twice and no text outside comments is lost.
C15_LogicalLines ==
  findPc # "idle"
    => /\ read_effective_lines(findFile) = C15_Expected(findFile.lines)
       /\ Len(logical) <= Len(read_effective_lines(findFile))
       /\ logical = SubSeq(read_effective_lines(findFile), 1, Len(logical))
       /\ (findPc = "done" /\ findUid = None) => logical = read_effective_lines(findFile)
       /\ C15_WordsOf(logical) \o Words(pending)
            = C15_SourceWords(SubSeq(findFile.lines, 1, rawIdx - 1))

\* RUN adduser \ , a comment, USER app: one logical line, the comment dropped
\* and the text pending before it kept
C15_Witness ==
  /\ findPc = "done"
  /\ findFile = FileOf(<<ContinuedLine, CommentLine, UserLine>>)
  /\ logical = <<<<"R", "U", "N", " ", "a", "d", "d", "u", "s", "e", "r", " ", " ">>
                   \o UserLine>>

====
